---- MODULE Spec2Model ----
(***************************************************************************)
(* Cellar Society (app.py): the product catalog cache (ProductHashTable),   *)
(* its loader (load_products_to_cache), the products table of the SQLite    *)
(* store, the admin handlers that mutate that table and the process         *)
(* bootstrap (__main__).                                                    *)
(*                                                                         *)
(* Three specifications share the variables:                                *)
(*   SpecCache   calls on a ProductHashTable created empty                  *)
(*   SpecLoader  load_products_to_cache as a function any caller may call,  *)
(*               stepped statement by statement, with readers and store     *)
(*               writers running between its statements                     *)
(*   Spec        the process: init_db, the loader, app.run, the handlers    *)
(***************************************************************************)
EXTENDS Integers, Sequences, FiniteSets, TLC

\* ---------------------------------------------------------------- bounds
\* largest AUTOINCREMENT id the products table hands out in a run
MaxId == 2
\* ids a direct caller of the ProductHashTable uses are 1..MaxKey
MaxKey == 3
\* calls of load_products_to_cache a caller makes in SpecLoader
MaxLoads == 2

Ids == 1..MaxId
Keys == 1..MaxKey

\* ------------------------------------------------------------ input data
\* request.form as parsed into the tuple `data' of add_product/edit_product:
\* <<name, type, region, vintage, price, alcohol, stock, description, image_url>>
\* (prices and alcohol in tenths, to stay in the integers)
Forms ==
    { <<"Merlot", "Red", "Bordeaux", 2015, 125, 135, 10, "dry", "merlot.png">>,
      <<"Chablis", "White", "Burgundy", 2020, 300, 120, 0, "", "">> }

\* CURRENT_TIMESTAMP of the rows an earlier run of the process left in the
\* database file, and of the rows this run inserts
Earlier == "2025-01-01 10:00:00"
Now == "2025-06-30 18:30:00"

\* a row of the products table, in column order:
\* <<id, name, type, region, vintage, price, alcohol, stock, description,
\*   image_url, created_at>>
product_row(id, data, created_at) == <<id>> \o data \o <<created_at>>

\* Python's None, as returned by dict.get(key, None)
None == [none |-> TRUE]

\* ------------------------------------------------- dict (self.table = {})
\* A Python dict keeps insertion order: a sequence of <<key, value>> pairs
\* with pairwise different keys.
dict_keys(d) == { d[i][1] : i \in DOMAIN d }

dict_index(d, k) == CHOOSE i \in DOMAIN d : d[i][1] = k

\* d[k] = v : an existing key keeps its position, a new key goes last
dict_setitem(d, k, v) ==
    IF k \in dict_keys(d)
    THEN [d EXCEPT ![dict_index(d, k)] = <<k, v>>]
    ELSE Append(d, <<k, v>>)

\* del d[k]
dict_delitem(d, k) == SelectSeq(d, LAMBDA e : e[1] # k)

\* ------------------------------------------------------ ProductHashTable
\* insert that appends without looking for the key
insert_append(table, product_id, product_data) ==
    Append(table, <<product_id, product_data>>)

\* insert that keeps the record a key already has (dict.setdefault)
insert_setdefault(table, product_id, product_data) ==
    IF product_id \in dict_keys(table)
    THEN table
    ELSE Append(table, <<product_id, product_data>>)

\* ProductHashTable.insert: self.table[product_id] = product_data
insert(table, product_id, product_data) ==
    dict_setitem(table, product_id, product_data)

\* ProductHashTable.get: self.table.get(product_id, None)
get(table, product_id) ==
    IF product_id \in dict_keys(table)
    THEN table[dict_index(table, product_id)][2]
    ELSE None

\* delete that reports a removal whether or not the key was there
delete_always_true(table, product_id) ==
    [table |-> dict_delitem(table, product_id), ret |-> TRUE]

\* ProductHashTable.delete: the table afterwards and the value returned
delete(table, product_id) ==
    IF product_id \in dict_keys(table)
    THEN [table |-> dict_delitem(table, product_id), ret |-> TRUE]
    ELSE [table |-> table, ret |-> FALSE]

\* ProductHashTable.get_all: list(self.table.values())
get_all(table) == [i \in DOMAIN table |-> table[i][2]]

\* a clear that leaves the table as it is
clear_nothing(table) == table

\* product_cache.table.clear()
clear(table) == <<>>

\* the record built with price and alcohol read from each other's column
row_to_record_swapped(p) ==
    [ id |-> p[1], name |-> p[2], type |-> p[3], region |-> p[4],
      vintage |-> p[5], price |-> p[7], alcohol |-> p[6], stock |-> p[8],
      description |-> p[9], image_url |-> p[10] ]

\* the record load_products_to_cache builds from a fetched row p
\* (Python p[0]..p[9] are row[1]..row[10]; p[10], created_at, is not read)
row_to_record(p) ==
    [ id |-> p[1], name |-> p[2], type |-> p[3], region |-> p[4],
      vintage |-> p[5], price |-> p[6], alcohol |-> p[7], stock |-> p[8],
      description |-> p[9], image_url |-> p[10] ]

\* records a direct caller passes to insert
Datas(k) == { row_to_record(product_row(k, f, Now)) : f \in Forms }

\* ---------------------------------------------------------- products table
\* The table is the sequence of its rows in rowid order (the order in which
\* SELECT * FROM products returns them).
table_ids(rows) == { rows[i][1] : i \in DOMAIN rows }

\* SELECT * FROM products WHERE id=? ... fetchone(): is there such a row
select_by_id(rows, product_id) == product_id \in table_ids(rows)

\* INSERT INTO products (...) VALUES (...): the new row gets the next
\* AUTOINCREMENT id and goes last in rowid order
sql_insert(rows, id, data) == Append(rows, product_row(id, data, Now))

\* UPDATE products SET name=?, ..., image_url=? WHERE id=?
sql_update(rows, product_id, data) ==
    [ i \in DOMAIN rows |->
        IF rows[i][1] = product_id
        THEN product_row(product_id, data, rows[i][11])
        ELSE rows[i] ]

\* DELETE FROM products WHERE id=?
sql_delete(rows, product_id) == SelectSeq(rows, LAMBDA r : r[1] # product_id)

\* the tables an earlier run can have left behind: rows in ascending id
\* order, any subset of the ids, any form
RECURSIVE tables_upto(_)
tables_upto(n) ==
    IF n = 0 THEN { <<>> }
    ELSE LET rest == tables_upto(n - 1)
         IN  rest \cup { Append(t, product_row(n, f, Earlier)) :
                             t \in rest, f \in Forms }

\* ------------------------------------------------------------------ state
VARIABLES
    phase,        \* __main__: "boot", "init_done", "loading", "serving", "crashed"
    schema,       \* the products table exists in the database file
    store,        \* the rows of the products table
    nextId,       \* sqlite_sequence: the id the next INSERT gets
    cache,        \* product_cache.table
    lpc,          \* load_products_to_cache: the statement it is about to run
    conn,         \* the loader's connection: "none", "open", "closed"
    cur,          \* the loader's cursor: the rows the SELECT produced
    products,     \* the loader's local `products'
    idx,          \* the loader's position in `for p in products'
    loadCalls,    \* how many times load_products_to_cache was entered
    served,       \* a request handler has run
    ret,          \* the last completed call on the cache or the loader
    lastWrite,    \* history: per key, the data of the last insert, None
                  \* after a removal or when never written
    preCache      \* history: product_cache.table when the running loader
                  \* was entered

vars == << phase, schema, store, nextId, cache, lpc, conn, cur, products, idx,
           loadCalls, served, ret, lastWrite, preCache >>

dbVars == << schema, store, nextId >>
loaderVars == << lpc, conn, cur, products, idx, loadCalls, preCache >>

NoCall == [op |-> "none", key |-> 0, val |-> None]

\* everything but the database file, as a fresh interpreter has it
FreshProcess ==
    /\ cache = <<>>
    /\ lpc = "idle"
    /\ conn = "none"
    /\ cur = <<>>
    /\ products = <<>>
    /\ idx = 1
    /\ loadCalls = 0
    /\ served = FALSE
    /\ ret = NoCall
    /\ lastWrite = [k \in Keys |-> None]
    /\ preCache = <<>>

\* ----------------------------------------------- calls on product_cache
\* Writers are serialized by their callers (the table has no lock): a direct
\* insert or delete runs when no load is in progress.

\* product_cache.insert(product_id, product_data)
cache_insert(product_id, product_data) ==
    /\ lpc = "idle"
    /\ cache' = insert(cache, product_id, product_data)
    /\ lastWrite' = [lastWrite EXCEPT ![product_id] = product_data]
    /\ ret' = [op |-> "insert", key |-> product_id, val |-> None]
    /\ UNCHANGED << phase, served, dbVars, loaderVars >>

\* product_cache.delete(product_id)
cache_delete(product_id) ==
    /\ lpc = "idle"
    /\ cache' = delete(cache, product_id).table
    /\ lastWrite' = [lastWrite EXCEPT ![product_id] = None]
    /\ ret' = [op |-> "delete", key |-> product_id,
               val |-> delete(cache, product_id).ret]
    /\ UNCHANGED << phase, served, dbVars, loaderVars >>

\* product_cache.get(product_id)
cache_get(product_id) ==
    /\ ret' = [op |-> "get", key |-> product_id, val |-> get(cache, product_id)]
    /\ UNCHANGED << phase, served, cache, lastWrite, dbVars, loaderVars >>

\* product_cache.get_all()
cache_get_all ==
    /\ ret' = [op |-> "get_all", key |-> 0, val |-> get_all(cache)]
    /\ UNCHANGED << phase, served, cache, lastWrite, dbVars, loaderVars >>

\* ------------------------------------------ load_products_to_cache
\* The function runs statement by statement; lpc names the statement it
\* is about to run, "idle" when it is not running. The products table is
\* not written while it runs: in the process it has returned before
\* app.run() serves the first request.

\* entering the function (the caller's part is in call_load / main_load)
load_enter ==
    /\ lpc = "idle"
    /\ lpc' = "connect"
    /\ loadCalls' = loadCalls + 1
    /\ conn' = "none"
    /\ preCache' = cache
    /\ UNCHANGED << cache, lastWrite, ret, dbVars, cur, products, idx >>

\* leaving the function, by return or by an exception: its locals are gone,
\* the connection object stays as the function left it
load_exit(outcome) ==
    /\ lpc' = "idle"
    /\ ret' = [op |-> "load", key |-> 0, val |-> outcome]
    /\ cur' = <<>>
    /\ products' = <<>>
    /\ idx' = 1
    /\ preCache' = <<>>

\* conn = sqlite3.connect(DB_PATH); c = conn.cursor()
load_connect ==
    /\ lpc = "connect"
    /\ \/ /\ conn' = "open"
          /\ lpc' = "execute"
          /\ UNCHANGED << ret, cur, products, idx, preCache >>
       \/ /\ conn' = conn
          /\ load_exit("raised")
    /\ UNCHANGED << phase, cache, lastWrite, served, dbVars, loadCalls >>

\* an execute that empties the cache before it reads the table
load_execute_clear_first ==
    /\ lpc = "execute"
    /\ cache' = <<>>
    /\ \/ /\ schema
          /\ cur' = store
          /\ lpc' = "fetchall"
          /\ UNCHANGED << ret, products, idx, preCache >>
       \/ load_exit("raised")
    /\ UNCHANGED << phase, lastWrite, served, dbVars, conn, loadCalls >>

\* c.execute("SELECT * FROM products"): raises when the table does not
\* exist or the database cannot be read
load_execute ==
    /\ lpc = "execute"
    /\ \/ /\ schema
          /\ cur' = store
          /\ lpc' = "fetchall"
          /\ UNCHANGED << ret, products, idx, preCache >>
       \/ load_exit("raised")
    /\ UNCHANGED << phase, cache, lastWrite, served, dbVars, conn, loadCalls >>

\* products = c.fetchall()
load_fetchall ==
    /\ lpc = "fetchall"
    /\ \/ /\ products' = cur
          /\ lpc' = "close"
          /\ UNCHANGED << ret, cur, idx, preCache >>
       \/ load_exit("raised")
    /\ UNCHANGED << phase, cache, lastWrite, served, dbVars, conn, loadCalls >>

\* conn.close()
load_close ==
    /\ lpc = "close"
    /\ conn' = "closed"
    /\ lpc' = "clear"
    /\ UNCHANGED << phase, cache, lastWrite, served, ret, dbVars,
                    cur, products, idx, loadCalls, preCache >>

\* product_cache.table.clear()
load_clear ==
    /\ lpc = "clear"
    /\ cache' = clear(cache)
    /\ lastWrite' = [k \in Keys |-> None]
    /\ idx' = 1
    /\ lpc' = "loop"
    /\ UNCHANGED << phase, served, ret, dbVars,
                    conn, cur, products, loadCalls, preCache >>

\* a loop that walks the fetched rows from the last to the first
load_insert_backwards ==
    /\ lpc = "loop"
    /\ idx <= Len(products)
    /\ LET p == products[Len(products) + 1 - idx]
       IN  /\ cache' = insert(cache, p[1], row_to_record(p))
           /\ lastWrite' = [lastWrite EXCEPT ![p[1]] = row_to_record(p)]
    /\ idx' = idx + 1
    /\ UNCHANGED << phase, served, ret, dbVars,
                    lpc, conn, cur, products, loadCalls, preCache >>

\* one turn of `for p in products: product_cache.insert(p[0], {...})'
load_insert ==
    /\ lpc = "loop"
    /\ idx <= Len(products)
    /\ LET p == products[idx]
       IN  /\ cache' = insert(cache, p[1], row_to_record(p))
           /\ lastWrite' = [lastWrite EXCEPT ![p[1]] = row_to_record(p)]
    /\ idx' = idx + 1
    /\ UNCHANGED << phase, served, ret, dbVars,
                    lpc, conn, cur, products, loadCalls, preCache >>

\* the loop is exhausted: the function returns
load_return ==
    /\ lpc = "loop"
    /\ idx > Len(products)
    /\ load_exit("returned")
    /\ UNCHANGED << phase, cache, lastWrite, served, dbVars, conn, loadCalls >>

load_step ==
    \/ load_connect
    \/ load_execute
    \/ load_fetchall
    \/ load_close
    \/ load_clear
    \/ load_insert
    \/ load_return

\* ---------------------------------------------------------- admin handlers
\* add_product: a GET renders the form, a POST inserts the row
add_product(method, data) ==
    /\ phase = "serving"
    /\ lpc = "idle"
    /\ schema
    /\ served' = TRUE
    /\ IF method = "POST"
       THEN /\ nextId <= MaxId
            /\ store' = sql_insert(store, nextId, data)
            /\ nextId' = nextId + 1
       ELSE UNCHANGED << store, nextId >>
    /\ UNCHANGED << phase, schema, cache, lastWrite, ret, loaderVars >>

\* edit_product: an unknown id redirects, a GET renders the form, a POST
\* updates the row
edit_product(product_id, method, data) ==
    /\ phase = "serving"
    /\ lpc = "idle"
    /\ schema
    /\ served' = TRUE
    /\ IF select_by_id(store, product_id) /\ method = "POST"
       THEN store' = sql_update(store, product_id, data)
       ELSE store' = store
    /\ UNCHANGED << phase, schema, nextId, cache, lastWrite, ret, loaderVars >>

\* a delete_product that also drops the id from the cache (write-through)
delete_product_write_through(product_id) ==
    /\ phase = "serving"
    /\ lpc = "idle"
    /\ schema
    /\ served' = TRUE
    /\ IF select_by_id(store, product_id)
       THEN /\ store' = sql_delete(store, product_id)
            /\ cache' = delete(cache, product_id).table
       ELSE UNCHANGED << store, cache >>
    /\ UNCHANGED << phase, schema, nextId, lastWrite, ret, loaderVars >>

\* delete_product: an unknown id redirects, otherwise the row is deleted
delete_product(product_id) ==
    /\ phase = "serving"
    /\ lpc = "idle"
    /\ schema
    /\ served' = TRUE
    /\ IF select_by_id(store, product_id)
       THEN store' = sql_delete(store, product_id)
       ELSE store' = store
    /\ UNCHANGED << phase, schema, nextId, cache, lastWrite, ret, loaderVars >>

\* a user_dashboard that reloads the cache before it lists the products
user_dashboard_reloads ==
    /\ phase = "serving"
    /\ served' = TRUE
    /\ load_enter
    /\ UNCHANGED phase

\* user_dashboard: lists the products through user_backend.get_all_products
\* and renders them; nothing of the cache or the table is written
user_dashboard ==
    /\ phase = "serving"
    /\ served' = TRUE
    /\ UNCHANGED << phase, cache, lastWrite, ret, dbVars, loaderVars >>

Methods == { "GET", "POST" }

handler ==
    \/ \E m \in Methods : \E data \in Forms : add_product(m, data)
    \/ \E id \in Ids : \E m \in Methods : \E data \in Forms :
            edit_product(id, m, data)
    \/ \E id \in Ids : delete_product(id)
    \/ user_dashboard

InitCache ==
    /\ phase = "serving"
    /\ schema = TRUE
    /\ store = <<>>
    /\ nextId = 1
    /\ FreshProcess

NextCache ==
    \/ \E k \in Keys : \E data \in Datas(k) : cache_insert(k, data)
    \/ \E k \in Keys : cache_delete(k)
    \/ \E k \in Keys : cache_get(k)
    \/ cache_get_all

SpecCache == InitCache /\ [][NextCache]_vars

\* ------------------------------------------- the loader and its callers
\* a caller calls load_products_to_cache()
call_load ==
    /\ loadCalls < MaxLoads
    /\ load_enter
    /\ UNCHANGED << phase, served >>

InitLoader ==
    /\ phase = "serving"
    /\ schema = TRUE
    /\ store = <<>>
    /\ nextId = 1
    /\ FreshProcess

\* callers that call the loader, write the cache directly and change the
\* table, one call after the other
NextLoader ==
    \/ call_load
    \/ load_step
    \/ \E k \in Ids : \E data \in Datas(k) : cache_insert(k, data)
    \/ \E k \in Ids : cache_delete(k)
    \/ handler

SpecLoader == InitLoader /\ [][NextLoader]_vars

\* the loader with reader threads: get and get_all take no lock, so they
\* run between any two statements of a running load
NextReaders ==
    \/ call_load
    \/ load_step
    \/ \E k \in Ids : cache_get(k)
    \/ cache_get_all
    \/ handler

SpecReaders == InitLoader /\ [][NextReaders]_vars

\* ------------------------------------------------------------ __main__
\* init_db(): CREATE TABLE IF NOT EXISTS ...; an existing table keeps its
\* rows. A database that cannot be opened or written ends the process.
main_init_db ==
    /\ phase = "boot"
    /\ \/ /\ schema' = TRUE
          /\ phase' = "init_done"
       \/ /\ schema' = schema
          /\ phase' = "crashed"
    /\ UNCHANGED << store, nextId, cache, lastWrite, ret, served, loaderVars >>

\* load_products_to_cache() is called
main_load ==
    /\ phase = "init_done"
    /\ phase' = "loading"
    /\ load_enter
    /\ UNCHANGED served

\* the loader raised: nothing catches it and the process ends
main_load_raised ==
    /\ phase = "loading"
    /\ lpc = "idle"
    /\ ret.op = "load" /\ ret.val = "raised"
    /\ phase' = "crashed"
    /\ UNCHANGED << cache, lastWrite, ret, served, dbVars, loaderVars >>

\* the loader returned: the banner is printed and app.run() serves
main_app_run ==
    /\ phase = "loading"
    /\ lpc = "idle"
    /\ ret.op = "load" /\ ret.val = "returned"
    /\ phase' = "serving"
    /\ UNCHANGED << cache, lastWrite, ret, served, dbVars, loaderVars >>

\* the database file as an earlier run left it, or none yet
Init ==
    /\ phase = "boot"
    /\ schema \in BOOLEAN
    /\ store \in (IF schema THEN tables_upto(MaxId) ELSE { <<>> })
    /\ nextId \in { n \in 1..(MaxId + 1) : \A id \in table_ids(store) : id < n }
    /\ FreshProcess

Next ==
    \/ main_init_db
    \/ main_load
    \/ load_step
    \/ main_load_raised
    \/ main_app_run
    \/ handler

Spec == Init /\ [][Next]_vars

\* ================================================================ claims
FieldNames ==
    { "id", "name", "type", "region", "vintage", "price", "alcohol", "stock",
      "description", "image_url" }

\* the ids with a record: inserted and not removed since
Present == { k \in Keys : lastWrite[k] # None }

\* the step in which a running load returns / raises
LoadReturns == lpc # "idle" /\ lpc' = "idle" /\ ret'.val = "returned"
LoadRaises == lpc # "idle" /\ lpc' = "idle" /\ ret'.val = "raised"

\* the row of the products table with this id
row_of(rows, id) == rows[CHOOSE i \in DOMAIN rows : rows[i][1] = id]

\* what a completed load of the products table puts in the cache, in order
Loaded(rows) == [i \in DOMAIN rows |-> row_to_record(rows[i])]

IsPrefix(a, b) == Len(a) <= Len(b) /\ a = SubSeq(b, 1, Len(a))

\* ---- C1 (SpecCache): after any sequence of insert and delete calls on a
\* cache created empty, get(id) is the record of the last insert on id when
\* the last call on id was an insert, and None when it was a delete or id
\* was never touched; calls on other ids do not change it.
C1_LastWriteWins ==
    /\ \A k \in Keys : get(cache, k) = lastWrite[k]
    /\ ret.op = "get" => ret.val = lastWrite[ret.key]

\* a get that returned the record stored under the first key of the table,
\* with a second id in the cache and a third one absent
C1_Witness ==
    /\ ret.op = "get"
    /\ ret.val # None
    /\ ret.val.name = "Chablis"
    /\ Len(cache) = 2
    /\ cache[1][1] = ret.key
    /\ cache[1][2] = ret.val

\* ---- C8 (SpecCache): delete(id) on an absent id returns False and leaves
\* the cache unchanged; on a present id it returns True and removes that id
\* alone; a second delete(id) right after changes nothing and returns False.
C8_DeleteContract ==
    [][ ret'.op = "delete" =>
          LET k == ret'.key
          IN  /\ IF k \in dict_keys(cache)
                 THEN /\ ret'.val = TRUE
                      /\ cache' = SelectSeq(cache, LAMBDA e : e[1] # k)
                      /\ dict_keys(cache') = dict_keys(cache) \ {k}
                 ELSE /\ ret'.val = FALSE
                      /\ cache' = cache
              /\ delete(cache', k) = [table |-> cache', ret |-> FALSE] ]_vars

\* a delete of an absent id that returned False on a cache holding two ids
C8_Witness ==
    /\ ret.op = "delete"
    /\ ret.val = FALSE
    /\ Len(cache) = 2
    /\ ret.key \notin dict_keys(cache)

\* ---- C9 (SpecCache): get_all() has as many records as there are ids
\* present (inserted and not deleted since), the keys of the table being
\* exactly those ids; get and get_all do not change the cache.
C9_GetAllCount ==
    /\ [](/\ Len(get_all(cache)) = Cardinality(Present)
          /\ dict_keys(cache) = Present
          /\ ret.op = "get_all" => Len(ret.val) = Cardinality(Present))
    /\ [][ ret'.op \in {"get", "get_all"} => cache' = cache ]_vars

\* a get_all that returned two records, the larger id inserted first
C9_Witness ==
    /\ ret.op = "get_all"
    /\ Len(ret.val) = 2
    /\ Cardinality(Present) = 2
    /\ cache[1][1] > cache[2][1]

\* ---- C2 (SpecLoader): when load_products_to_cache() returns, the keys of
\* the cache are the ids of the N rows of the products table, get_all() has
\* N records, and the record under each id has exactly the ten fields id,
\* name, type, region, vintage, price, alcohol, stock, description and
\* image_url with the row's values (created_at is not carried over).
C2_LoadMirrorsStore ==
    [][ LoadReturns =>
          /\ dict_keys(cache') = table_ids(store)
          /\ Len(get_all(cache')) = Len(store)
          /\ \A i \in DOMAIN store :
                LET row == store[i]
                    rec == get(cache', row[1])
                IN  /\ DOMAIN rec = FieldNames
                    /\ rec.id = row[1]
                    /\ rec.name = row[2]
                    /\ rec.type = row[3]
                    /\ rec.region = row[4]
                    /\ rec.vintage = row[5]
                    /\ rec.price = row[6]
                    /\ rec.alcohol = row[7]
                    /\ rec.stock = row[8]
                    /\ rec.description = row[9]
                    /\ rec.image_url = row[10] ]_vars

\* a load that returned with two rows in the table and two records cached
C2_Witness ==
    /\ ret.op = "load"
    /\ ret.val = "returned"
    /\ Len(store) = 2
    /\ Len(get_all(cache)) = 2
    /\ dict_keys(cache) = table_ids(store)

\* ---- C3 (SpecLoader): a load replaces the cache: when it returns, the
\* cache holds exactly the ids of the products table; an id that was cached
\* before and is not in the table is gone, and every id of the table has the
\* record of its current row, whatever it had before.
C3_TotalReplace ==
    [][ LoadReturns =>
          /\ dict_keys(cache') = table_ids(store)
          /\ \A k \in Ids :
                IF k \in table_ids(store)
                THEN get(cache', k) = row_to_record(row_of(store, k))
                ELSE get(cache', k) = None ]_vars

\* a second load about to return: the cache held an id the table no longer
\* has, and an id whose record differs from the table's row
C3_Witness ==
    /\ lpc = "loop"
    /\ idx > Len(products)
    /\ loadCalls = 2
    /\ \E k \in dict_keys(preCache) : k \notin table_ids(store)
    /\ \E k \in dict_keys(preCache) \cap table_ids(store) :
            get(preCache, k) # get(cache, k)

\* ---- C6 (SpecLoader): a load that fails raises out of connect, execute
\* or fetchall, and the cache is then exactly what it was when the loader
\* was entered: not cleared, not partly filled.
C6_FailedLoadKeepsCache ==
    [][ LoadRaises =>
          /\ lpc \in {"connect", "execute", "fetchall"}
          /\ cache' = preCache
          /\ cache' = cache ]_vars

\* a load that raised after it had connected, with two records left cached
C6_Witness ==
    /\ ret.op = "load"
    /\ ret.val = "raised"
    /\ conn = "open"
    /\ Len(cache) = 2

\* ---- C7 (SpecLoader): whenever the loader is not running (it has returned
\* or raised), the connection it opened has been closed.
C7_ConnectionReleased == lpc = "idle" => conn # "open"

\* ---- C10 (SpecReaders), as claimed: a get or get_all that runs during a
\* load observes the complete pre-load contents or the complete post-load
\* contents.
C10_AtomicLoad ==
    lpc # "idle" =>
       /\ ret.op = "get_all" =>
             \/ ret.val = get_all(preCache)
             \/ ret.val = Loaded(store)
       /\ ret.op = "get" =>
             \/ ret.val = get(preCache, ret.key)
             \/ /\ ret.key \in table_ids(store)
                /\ ret.val = row_to_record(row_of(store, ret.key))
             \/ /\ ret.key \notin table_ids(store)
                /\ ret.val = None

\* ---- C10 (SpecReaders), amended: a get_all during a load observes the
\* complete pre-load contents or the records of the first rows of the table
\* (none, some or all of them, in row order); a get observes the pre-load
\* record, the table's record or None; with no load running both observe
\* the complete cache.
C10_TornReads ==
    /\ lpc # "idle" =>
          /\ ret.op = "get_all" =>
                \/ ret.val = get_all(preCache)
                \/ IsPrefix(ret.val, Loaded(store))
          /\ ret.op = "get" =>
                \/ ret.val = get(preCache, ret.key)
                \/ ret.val = None
                \/ /\ ret.key \in table_ids(store)
                   /\ ret.val = row_to_record(row_of(store, ret.key))
    /\ lpc = "idle" =>
          /\ ret.op = "get_all" => ret.val = get_all(cache)
          /\ ret.op = "get" => ret.val = get(cache, ret.key)

\* a get_all during a load of two rows that returned the first row's record
\* alone: neither the pre-load nor the post-load contents
C10_Witness ==
    /\ lpc = "loop"
    /\ ret.op = "get_all"
    /\ Len(ret.val) = 1
    /\ Len(store) = 2
    /\ ret.val # get_all(preCache)
    /\ ret.val # Loaded(store)

\* ---- C4 (Spec): add_product, edit_product and delete_product write the
\* products table only: once the process serves, no step changes what get
\* and get_all return, so they keep returning the records loaded at startup.
C4_MutationsLeaveCache ==
    [][ phase = "serving" =>
          /\ get_all(cache') = get_all(cache)
          /\ \A k \in Ids : get(cache', k) = get(cache, k) ]_vars

\* the process serves with a cached record whose row was deleted and a row
\* that is not cached
C4_Witness ==
    /\ phase = "serving"
    /\ served
    /\ \E k \in dict_keys(cache) : k \notin table_ids(store)
    /\ \E k \in table_ids(store) : k \notin dict_keys(cache)

\* ---- C5 (Spec): the loader is entered at most once in a run, by __main__
\* right after init_db has returned (the schema exists) and before any
\* request handler has run; a process that serves has entered it exactly
\* once, and no handler enters it.
C5_LoadedOnceAtStartup ==
    /\ [](/\ loadCalls <= 1
          /\ phase = "serving" => loadCalls = 1 /\ schema
          /\ served => loadCalls = 1 /\ lpc = "idle")
    /\ [][ loadCalls' # loadCalls =>
             /\ phase = "init_done"
             /\ schema
             /\ ~served
             /\ loadCalls = 0
             /\ loadCalls' = 1 ]_vars

\* the process serves, handlers have changed the table since the load, and
\* the loader has been entered once
C5_Witness ==
    /\ phase = "serving"
    /\ served
    /\ loadCalls = 1
    /\ get_all(cache) # Loaded(store)

====
